---- MODULE Spec2Model ----
(***************************************************************************)
(* ProductVariantCreate (saleor/graphql/product/mutations/product_variant/ *)
(* product_variant_create.py): the clean_input validation pipeline, the    *)
(* duplicate-signature registry and the transactional save, as a state     *)
(* machine.                                                                *)
(*                                                                         *)
(* Encoding: an optional value is a sequence of length 0 (None / absent)   *)
(* or 1 (the value); a string is a sequence of one-character strings; a    *)
(* primary key is a positive integer and NoPk stands for "pk is None".     *)
(***************************************************************************)
EXTENDS Integers, Sequences, FiniteSets, TLC

\* ------------------------------------------------------------------ bounds
MaxAttrs == 2
MaxChecks == 2
MaxOps == 3
MaxRaceOps == 2
MaxVariants == 2

\* --------------------------------------------------------------- encodings
None == <<>>
Some(x) == <<x>>
NoPk == 0

Range(s) == {s[i] : i \in 1..Len(s)}

SeqsUpTo(S, n) == UNION {[1..k -> S] : k \in 0..n}

\* ----------------------------------------------------------------- strings
\* str.lower() on the alphabet of the model
Lower(c) == IF c = "A" THEN "a" ELSE IF c = "B" THEN "b" ELSE c

\* \w of the regular expressions of slugify
IsWordChar(c) == c \in {"a", "b", "c", "d", "p", "s", "x", "y", "A", "B", "_"}

\* [-\s] of the regular expressions of slugify
IsSeparator(c) == c \in {" ", "-"}

RECURSIVE DropSeparators(_)
DropSeparators(s) ==
    IF s = <<>> THEN <<>>
    ELSE IF IsSeparator(Head(s)) THEN DropSeparators(Tail(s))
    ELSE s

\* re.sub(r"[-\s]+", "-", value)
RECURSIVE CollapseSeparators(_)
CollapseSeparators(s) ==
    IF s = <<>> THEN <<>>
    ELSE IF IsSeparator(Head(s))
         THEN <<"-">> \o CollapseSeparators(DropSeparators(Tail(s)))
         ELSE <<Head(s)>> \o CollapseSeparators(Tail(s))

RECURSIVE LStrip(_, _)
LStrip(s, chars) ==
    IF s = <<>> THEN <<>>
    ELSE IF Head(s) \in chars THEN LStrip(Tail(s), chars)
    ELSE s

RECURSIVE RStrip(_, _)
RStrip(s, chars) ==
    IF s = <<>> THEN <<>>
    ELSE IF s[Len(s)] \in chars THEN RStrip(SubSeq(s, 1, Len(s) - 1), chars)
    ELSE s

Strip(s, chars) == RStrip(LStrip(s, chars), chars)

\* django.utils.text.slugify: lower, drop what is not [\w\s-], collapse runs of
\* [-\s] into one "-", strip "-" and "_" at both ends
slugify(value) ==
    LET lowered == [i \in 1..Len(value) |-> Lower(value[i])]
        kept == SelectSeq(lowered, LAMBDA c : IsWordChar(c) \/ IsSeparator(c))
    IN  Strip(CollapseSeparators(kept), {"-", "_"})

\* file_url.split("/")[-1]
RECURSIVE LastSegment(_)
LastSegment(s) ==
    IF \E i \in 1..Len(s) : s[i] = "/"
    THEN LET i == CHOOSE j \in 1..Len(s) :
                      s[j] = "/" /\ \A k \in 1..(j - 1) : s[k] # "/"
         IN  LastSegment(SubSeq(s, i + 1, Len(s)))
    ELSE s

\* str.strip() of the sku normalizer
StripSpaces(s) == Strip(s, {" "})

\* ----------------------------------------------------------------- catalog
INVALID == "INVALID"
UNIQUE == "UNIQUE"
REQUIRED == "REQUIRED"
ATTRIBUTE_CANNOT_BE_ASSIGNED == "ATTRIBUTE_CANNOT_BE_ASSIGNED"
DUPLICATED_INPUT_ITEM == "DUPLICATED_INPUT_ITEM"

FILE == "file"
DROPDOWN == "dropdown"

Products == {"p1", "p2"}
Warehouses == {"W1", "W2"}

\* attribute_models.Attribute rows: a1 is a required choice attribute, a2 a FILE
\* attribute, a3 an attribute no product type lists for its variants
Attribute(id) ==
    [id |-> id,
     input_type |-> IF id = "a2" THEN FILE ELSE DROPDOWN,
     value_required |-> (id = "a1")]

\* models.ProductType of each product: p1 is configurable, p2 is not
ProductType(product) ==
    IF product = "p1"
    THEN [has_variants |-> TRUE, variant_attributes |-> {"a1", "a2"}]
    ELSE [has_variants |-> FALSE, variant_attributes |-> {"a1"}]

\* ------------------------------------------------------- attribute inputs
X == <<"x">>
Y == <<"y">>
UrlUpper == <<"d", "/", "A", " ", "b">>
UrlSlug == <<"a", "-", "b">>

\* AttributeValueInput: id, values, file (url)
AttrInput(id, values, file_url) ==
    [id |-> id, values |-> values, file_url |-> file_url]

A1X == AttrInput("a1", <<X>>, None)
A1Y == AttrInput("a1", <<Y>>, None)
A2Upper == AttrInput("a2", <<>>, UrlUpper)
A2Slug == AttrInput("a2", <<>>, UrlSlug)
A2Empty == AttrInput("a2", <<>>, None)
A1Empty == AttrInput("a1", <<>>, None)
A3X == AttrInput("a3", <<X>>, None)

RegistryInputs == {A1X, A1Y, A2Upper, A2Slug}
AllInputs == {A1X, A1Y, A1Empty, A2Upper, A2Slug, A2Empty, A3X}

\* --------------------------------------------------- duplicate detection
\* AttributeAssignmentMixin.clean_input resolves every input to its Attribute
\* and returns the (attribute, AttrValuesInput) pairs in input order
ResolveAttributes(attributes) ==
    [i \in 1..Len(attributes) |->
        [attr |-> Attribute(attributes[i].id),
         data |-> [global_id |-> attributes[i].id,
                   values |-> attributes[i].values,
                   file_url |-> attributes[i].file_url]]]

\* the values one (attr, attr_data) pair contributes to the signature
ValuesOfPair(pair) ==
    IF pair.attr.input_type = FILE
    THEN IF pair.data.file_url # None
         THEN <<slugify(LastSegment(pair.data.file_url))>>
         ELSE <<>>
    ELSE pair.data.values

\* attribute_values[attr_data.global_id].extend(values) on a defaultdict(list)
Extend(attribute_values, key, values) ==
    [k \in (DOMAIN attribute_values) \cup {key} |->
        IF k = key
        THEN (IF key \in DOMAIN attribute_values
              THEN attribute_values[key] ELSE <<>>) \o values
        ELSE attribute_values[k]]

RECURSIVE BuildSignature(_, _)
BuildSignature(attributes_data, attribute_values) ==
    IF attributes_data = <<>> THEN attribute_values
    ELSE BuildSignature(
            Tail(attributes_data),
            Extend(attribute_values,
                   Head(attributes_data).data.global_id,
                   ValuesOfPair(Head(attributes_data))))

Signature(attributes_data) == BuildSignature(attributes_data, <<>>)

\* attribute_values in used_attribute_values
InRegistry(attribute_values, used_attribute_values) ==
    \E i \in 1..Len(used_attribute_values) :
        used_attribute_values[i] = attribute_values

\* faulty variant: the membership test compares the key sets only
validate_keys_only(attributes_data, used_attribute_values) ==
    LET attribute_values == Signature(attributes_data)
    IN  IF \E i \in 1..Len(used_attribute_values) :
               DOMAIN used_attribute_values[i] = DOMAIN attribute_values
        THEN [raised |-> TRUE, code |-> DUPLICATED_INPUT_ITEM,
              params |-> DOMAIN attribute_values,
              used |-> used_attribute_values]
        ELSE [raised |-> FALSE, code |-> "", params |-> {},
              used |-> Append(used_attribute_values, attribute_values)]

\* faulty variant: the check never raises
validate_never_raises(attributes_data, used_attribute_values) ==
    [raised |-> FALSE, code |-> "", params |-> {},
     used |-> Append(used_attribute_values, Signature(attributes_data))]

\* ProductVariantCreate.validate_duplicated_attribute_values: the outcome and
\* the registry it leaves
validate_duplicated_attribute_values(attributes_data, used_attribute_values) ==
    LET attribute_values == Signature(attributes_data)
    IN  IF InRegistry(attribute_values, used_attribute_values)
        THEN [raised |-> TRUE, code |-> DUPLICATED_INPUT_ITEM,
              params |-> DOMAIN attribute_values,
              used |-> used_attribute_values]
        ELSE [raised |-> FALSE, code |-> "", params |-> {},
              used |-> Append(used_attribute_values, attribute_values)]

\* ---------------------------------------------------------------- database
\* A database state: variants maps a primary key to its row (product, name,
\* sku, and the attribute links of the variant as attribute id -> value
\* identifiers); stocks is the stock table, one element per row;
\* default_variant and search_vector are columns of the product rows.
EmptyDatabase ==
    [variants |-> <<>>,
     stocks |-> <<>>,
     default_variant |-> [p \in Products |-> NoPk],
     search_vector |-> [p \in Products |-> {}]]

VariantsOf(database, product) ==
    {pk \in DOMAIN database.variants : database.variants[pk].product = product}

RECURSIVE LinksFrom(_, _, _)
LinksFrom(database, product, pk) ==
    IF \A k \in DOMAIN database.variants : k < pk THEN <<>>
    ELSE (IF pk \in VariantsOf(database, product)
          THEN <<database.variants[pk].attributes>> ELSE <<>>)
         \o LinksFrom(database, product, pk + 1)

\* get_used_variants_attribute_values(product): the attribute-value mapping of
\* every persisted variant of the product, in primary-key order. The call
\* passes the product alone, so the variant being updated is among them.
get_used_variants_attribute_values(product, database) ==
    LinksFrom(database, product, 1)

\* ------------------------------------------------------------- clean_input
NoError == <<>>
Error(field, code, params) ==
    <<[field |-> field, code |-> code, params |-> params]>>

\* get_duplicated_values(values)
get_duplicated_values(values) ==
    {v \in Range(values) : Cardinality({i \in 1..Len(values) : values[i] = v}) > 1}

\* ProductVariantCreate.check_for_duplicates_in_stocks
check_for_duplicates_in_stocks(stocks_data) ==
    LET warehouse_ids == [i \in 1..Len(stocks_data) |-> stocks_data[i].warehouse]
        duplicates == get_duplicated_values(warehouse_ids)
    IN  IF duplicates # {} THEN Error("stocks", UNIQUE, duplicates) ELSE NoError

\* faulty variant: the quantity limit is checked before the weight
scalar_checks_quantity_first(data) ==
    IF data.quantity_limit_per_customer # None
       /\ data.quantity_limit_per_customer[1] < 1
    THEN Error("quantity_limit_per_customer", INVALID, {})
    ELSE IF data.weight # None /\ data.weight[1] # 0 /\ data.weight[1] < 0
    THEN Error("weight", INVALID, {})
    ELSE IF data.stocks # <<>>
    THEN check_for_duplicates_in_stocks(data.stocks)
    ELSE NoError

\* clean_input, the weight, quantity_limit_per_customer and stocks checks: the
\* error of the first check that raises
scalar_checks(data) ==
    IF data.weight # None /\ data.weight[1] # 0 /\ data.weight[1] < 0
    THEN Error("weight", INVALID, {})
    ELSE IF data.quantity_limit_per_customer # None
            /\ data.quantity_limit_per_customer[1] < 1
    THEN Error("quantity_limit_per_customer", INVALID, {})
    ELSE IF data.stocks # <<>>
    THEN check_for_duplicates_in_stocks(data.stocks)
    ELSE NoError

\* faulty variant: the difference is taken the other way round
invalid_attributes_reversed(attributes, product_type) ==
    product_type.variant_attributes \ {attributes[i].id : i \in 1..Len(attributes)}

\* clean_input: attributes_ids - variant_attributes_ids
invalid_attributes(attributes, product_type) ==
    LET variant_attributes_ids == product_type.variant_attributes
        attributes_ids == {attributes[i].id : i \in 1..Len(attributes)}
    IN  attributes_ids \ variant_attributes_ids

\* AttributeAssignmentMixin.clean_input, its validation: the attributes that
\* require a value and were given none
AttributeErrors(attributes) ==
    {attributes[i].id : i \in
        {j \in 1..Len(attributes) :
            /\ Attribute(attributes[j].id).value_required
            /\ attributes[j].values = <<>>
            /\ attributes[j].file_url = None}}

\* ProductVariantCreate.clean_attributes: the cleaned pairs, or the errors of
\* all the attributes together
clean_attributes(attributes, product_type) ==
    IF AttributeErrors(attributes) # {}
    THEN [error |-> Error("attributes", REQUIRED, AttributeErrors(attributes)),
          attributes |-> <<>>]
    ELSE [error |-> NoError, attributes |-> ResolveAttributes(attributes)]

\* faulty variant: the product type's has_variants flag is not consulted
attribute_phase_ignoring_has_variants(instance, attributes, product_type, used_attribute_values) ==
    IF attributes # <<>>
    THEN LET cleaned == clean_attributes(attributes, product_type)
             checked == validate_duplicated_attribute_values(
                            cleaned.attributes, used_attribute_values)
         IN  IF cleaned.error # NoError
             THEN [error |-> cleaned.error, attributes |-> <<>>,
                   used |-> used_attribute_values]
             ELSE IF checked.raised
             THEN [error |-> Error("attributes", checked.code, checked.params),
                   attributes |-> <<>>, used |-> checked.used]
             ELSE [error |-> NoError, attributes |-> cleaned.attributes,
                   used |-> checked.used]
    ELSE [error |-> NoError, attributes |-> <<>>, used |-> used_attribute_values]

\* clean_input, "Run the validation only if product type is configurable":
\* the error, the cleaned attributes and the registry afterwards
attribute_phase(instance, attributes, product_type, used_attribute_values) ==
    IF product_type.has_variants
    THEN IF attributes # <<>>
         THEN LET cleaned == clean_attributes(attributes, product_type)
                  checked == validate_duplicated_attribute_values(
                                 cleaned.attributes, used_attribute_values)
              IN  IF cleaned.error # NoError
                  THEN [error |-> cleaned.error, attributes |-> <<>>,
                        used |-> used_attribute_values]
                  ELSE IF checked.raised
                  THEN [error |-> Error("attributes", checked.code, checked.params),
                        attributes |-> <<>>, used |-> checked.used]
                  ELSE [error |-> NoError, attributes |-> cleaned.attributes,
                        used |-> checked.used]
         ELSE IF instance.pk = NoPk
                 /\ \E a \in product_type.variant_attributes :
                        Attribute(a).value_required
              THEN [error |-> Error("attributes", REQUIRED, {}),
                    attributes |-> <<>>, used |-> used_attribute_values]
              ELSE [error |-> NoError, attributes |-> <<>>,
                    used |-> used_attribute_values]
    ELSE IF attributes # <<>>
         THEN [error |-> Error("", INVALID, {}), attributes |-> <<>>,
               used |-> used_attribute_values]
         ELSE [error |-> NoError, attributes |-> <<>>,
               used |-> used_attribute_values]

\* clean_variant_sku: the sku without surrounding whitespace, None when nothing
\* is left; it fails on the sku of another persisted variant
clean_variant_sku(sku, instance, database) ==
    LET normalized == StripSpaces(sku)
    IN  IF \E pk \in DOMAIN database.variants :
               /\ pk # instance.pk
               /\ normalized # <<>>
               /\ database.variants[pk].sku = Some(normalized)
        THEN [error |-> Error("sku", UNIQUE, {}), sku |-> None]
        ELSE [error |-> NoError,
              sku |-> IF normalized = <<>> THEN None ELSE Some(normalized)]

\* what clean_input returns when a check raises
Rejected(error, used_attribute_values) ==
    [error |-> error, cleaned_input |-> <<>>, used |-> used_attribute_values,
     sku_normalizer_calls |-> 0]

\* ProductVariantCreate.clean_input: the error raised (or none), the cleaned
\* input, the registry it built and the number of calls of the sku normalizer
clean_input(instance, data, database) ==
    IF scalar_checks(data) # NoError
    THEN Rejected(scalar_checks(data), <<>>)
    ELSE
    LET product == IF instance.pk # NoPk THEN instance.product ELSE data.product
        product_type == ProductType(product)
        used_attribute_values ==
            get_used_variants_attribute_values(product, database)
        invalid == invalid_attributes(data.attributes, product_type)
        phase == attribute_phase(instance, data.attributes, product_type,
                                 used_attribute_values)
        sku == IF data.sku # None
               THEN clean_variant_sku(data.sku[1], instance, database)
               ELSE [error |-> NoError, sku |-> None]
    IN  IF invalid # {}
        THEN Rejected(Error("", ATTRIBUTE_CANNOT_BE_ASSIGNED, invalid),
                      used_attribute_values)
        ELSE IF phase.error # NoError
        THEN Rejected(phase.error, phase.used)
        ELSE IF sku.error # NoError
        THEN [error |-> sku.error, cleaned_input |-> <<>>, used |-> phase.used,
              sku_normalizer_calls |-> 1]
        ELSE [error |-> NoError,
              cleaned_input |->
                  Some([product |-> product,
                        attributes |-> phase.attributes,
                        stocks |-> data.stocks,
                        sku |-> sku.sku,
                        has_sku |-> data.sku # None,
                        name |-> data.name,
                        is_preorder |-> data.preorder # None,
                        preorder_global_threshold |->
                            IF data.preorder # None
                            THEN data.preorder[1].global_threshold ELSE None,
                        preorder_end_date |->
                            IF data.preorder # None
                            THEN data.preorder[1].end_date ELSE None]),
              used |-> phase.used,
              sku_normalizer_calls |-> IF data.sku # None THEN 1 ELSE 0]

\* ------------------------------------------------------------------- state
VARIABLES
    database,     \* the committed rows, what a reader outside a transaction sees
    task_queue,   \* update_product_discounted_price_task messages sent, in order
    events,       \* lifecycle events the plugin manager has received, in order
    next_pk,      \* the primary-key sequence of the variant table
    requests,     \* the mutation invocations in progress, one per slot
    started,      \* number of invocations started so far
    saves,        \* history: every save that ended, with how it ended
    first_saved,  \* history: per product, the first variant a save committed
    registry,     \* a used_attribute_values list shared by successive checks
    checks        \* history: the last checks made against registry

vars == <<database, task_queue, events, next_pk, requests, started, saves,
          first_saved, registry, checks>>

Slots == {1, 2}

Stock(warehouse, quantity) == [warehouse |-> warehouse, quantity |-> quantity]

Data(product, attributes, stocks, weight, quantity_limit, sku, preorder, name) ==
    [product |-> product, attributes |-> attributes, stocks |-> stocks,
     weight |-> weight, quantity_limit_per_customer |-> quantity_limit,
     sku |-> sku, preorder |-> preorder, name |-> name]

NoInstance == [pk |-> NoPk, product |-> "", name |-> None, sku |-> None]

NoWrites ==
    [row |-> None, default_variant |-> None, stocks |-> <<>>,
     attributes |-> None, name |-> None, search_vector |-> None]

Idle ==
    [pc |-> "idle", op |-> 0, data |-> <<>>, entry_pk |-> NoPk,
     instance |-> NoInstance,
     result |-> <<>>, new_variant |-> FALSE, product_default |-> NoPk,
     writes |-> NoWrites, on_commit |-> <<>>, before |-> <<>>]

\* what a reader outside the transaction can observe
Visible == [database |-> database, task_queue |-> task_queue, events |-> events]

TxPcs == {"in_tx", "saved", "defaulted", "enqueued", "stocked", "attributed",
          "named", "indexed", "emitted"}

\* ----------------------------------------------------------------- inputs
SkuRaw == <<" ", "s", " ">>
Preorder == [global_threshold |-> Some(1), end_date |-> None]

StockLists ==
    {<<>>,
     <<Stock("W1", 1)>>,
     <<Stock("W1", 1), Stock("W2", 1)>>,
     <<Stock("W1", 1), Stock("W1", 1)>>,
     <<Stock("W1", 1), Stock("W2", 1), Stock("W1", 1)>>}

\* the inputs of the validation pipeline
CleanData ==
    {Data(p, a, s, w, q, k, o, None) :
        p \in Products,
        a \in SeqsUpTo(AllInputs, MaxAttrs),
        s \in StockLists,
        w \in {None, Some(0 - 1), Some(0), Some(5)},
        q \in {None, Some(0), Some(1)},
        k \in {None, Some(SkuRaw)},
        o \in {None, Some(Preorder)}}

\* the inputs of the save pipeline; W9 is the id of no warehouse
SaveData ==
    {Data(p, a, s, None, None, None, None, None) :
        p \in Products,
        a \in {<<>>, <<A1X>>, <<A1Y>>, <<A1X, A2Upper>>},
        s \in {<<>>, <<Stock("W1", 1)>>, <<Stock("W9", 1)>>}}
    \cup {Data("p1", <<A1X>>, <<>>, None, None, Some(SkuRaw), None, None)}

\* the inputs of two invocations that run concurrently
RaceData ==
    {Data("p1", a, <<>>, None, None, None, None, None) :
        a \in {<<A1X>>, <<A1Y>>}}

\* --------------------------------------------------------------- get_instance
\* ProductVariantCreate.get_instance: the persisted variant named by id, or a
\* fresh model instance without a primary key
get_instance(pk) ==
    IF pk # NoPk
    THEN [pk |-> pk,
          product |-> database.variants[pk].product,
          name |-> database.variants[pk].name,
          sku |-> database.variants[pk].sku]
    ELSE NoInstance

\* ------------------------------------------------------------------ actions
\* perform_mutation up to save: get_instance, then clean_input on the input.
\* The product object read here (and its default_variant) stays in memory
\* until save.
Start(r, inputs, limit) ==
    /\ requests[r].pc = "idle"
    /\ started < limit
    /\ \E pk \in (DOMAIN database.variants) \cup {NoPk}, d \in inputs :
        /\ pk = NoPk => next_pk <= MaxVariants
        /\ pk # NoPk => d.product = database.variants[pk].product
        /\ LET instance == get_instance(pk)
               result == clean_input(instance, d, database)
           IN  requests' = [requests EXCEPT ![r] =
                   [Idle EXCEPT
                       !.pc = IF result.error = NoError
                              THEN "cleaned" ELSE "rejected",
                       !.op = started + 1,
                       !.data = d,
                       !.entry_pk = pk,
                       !.instance = [instance EXCEPT !.product = d.product],
                       !.result = result,
                       !.product_default =
                           database.default_variant[d.product]]]
    /\ started' = started + 1
    /\ UNCHANGED <<database, task_queue, events, next_pk, saves, first_saved,
                   registry, checks>>

\* faulty variant: new_variant is computed after the row has a primary key
new_variant_after_save(instance) == FALSE

\* save: new_variant = instance.pk is None
new_variant(instance) == instance.pk = NoPk

\* save: the transaction is entered
BeginSave(r) ==
    /\ requests[r].pc = "cleaned"
    /\ requests' = [requests EXCEPT ![r] =
           [@ EXCEPT !.pc = "in_tx",
                     !.new_variant = new_variant(requests[r].instance),
                     !.before = Some(Visible)]]
    /\ UNCHANGED <<database, task_queue, events, next_pk, started, saves,
                   first_saved, registry, checks>>

\* what the exit of the atomic block does when a step raised: the writes and
\* the on-commit hooks of the transaction are dropped
Rollback(r) ==
    /\ requests' = [requests EXCEPT ![r] =
           [@ EXCEPT !.pc = "aborted", !.writes = NoWrites, !.on_commit = <<>>]]
    /\ saves' = Append(saves, [op |-> requests[r].op,
                               pk |-> requests[r].instance.pk,
                               had_pk |-> requests[r].entry_pk # NoPk,
                               handed |-> requests[r].on_commit # <<>>,
                               outcome |-> "aborted"])

\* any step of the transaction raises (the database or a collaborator fails)
TxFail(r) ==
    /\ requests[r].pc \in TxPcs
    /\ Rollback(r)
    /\ UNCHANGED <<database, task_queue, events, next_pk, started,
                   first_saved, registry, checks>>

\* save: instance.save(), with the cleaned input set on the instance; a new
\* row takes the next value of the primary-key sequence
SaveInstance(r) ==
    LET q == requests[r]
        c == q.result.cleaned_input[1]
        pk == IF q.instance.pk = NoPk THEN next_pk ELSE q.instance.pk
        instance == [pk |-> pk,
                     product |-> q.instance.product,
                     name |-> IF c.name # None THEN c.name ELSE q.instance.name,
                     sku |-> IF c.has_sku THEN c.sku ELSE q.instance.sku]
    IN  /\ q.pc = "in_tx"
        /\ requests' = [requests EXCEPT ![r] =
               [@ EXCEPT !.pc = "saved",
                         !.instance = instance,
                         !.writes = [@ EXCEPT !.row = Some(instance)]]]
        /\ next_pk' = IF q.instance.pk = NoPk THEN next_pk + 1 ELSE next_pk
        /\ UNCHANGED <<database, task_queue, events, started, saves,
                       first_saved, registry, checks>>

\* save: if not instance.product.default_variant
sets_default_variant(product_default) == product_default = NoPk

\* save: the default variant of the product, read from the product object in
\* memory, and saved with update_fields when it was unset
SetDefaultVariant(r) ==
    LET q == requests[r]
    IN  /\ q.pc = "saved"
        /\ requests' = [requests EXCEPT ![r] =
               IF sets_default_variant(q.product_default)
               THEN [@ EXCEPT !.pc = "defaulted",
                              !.product_default = q.instance.pk,
                              !.writes = [@ EXCEPT !.default_variant =
                                              Some(q.instance.pk)]]
               ELSE [@ EXCEPT !.pc = "defaulted"]]
        /\ UNCHANGED <<database, task_queue, events, next_pk, started, saves,
                       first_saved, registry, checks>>

\* save: update_product_discounted_price_task.delay(instance.product_id): the
\* message is sent to the broker at once, inside the atomic block
EnqueueDiscountedPrice(r) ==
    /\ requests[r].pc = "defaulted"
    /\ task_queue' = Append(task_queue, requests[r].instance.product)
    /\ requests' = [requests EXCEPT ![r] = [@ EXCEPT !.pc = "enqueued"]]
    /\ UNCHANGED <<database, events, next_pk, started, saves, first_saved,
                   registry, checks>>

\* create_stocks(variant, stocks, warehouses): one new stock row per input
create_stocks(pk, stocks) ==
    [i \in 1..Len(stocks) |->
        [variant |-> pk, warehouse |-> stocks[i].warehouse,
         quantity |-> stocks[i].quantity]]

\* save and create_variant_stocks: get_nodes_or_error raises when an id names
\* no warehouse, otherwise the stock rows are created
CreateVariantStocks(r) ==
    LET q == requests[r]
        stocks == q.result.cleaned_input[1].stocks
    IN  /\ q.pc = "enqueued"
        /\ IF stocks # <<>>
              /\ \E i \in 1..Len(stocks) : stocks[i].warehouse \notin Warehouses
           THEN Rollback(r)
           ELSE /\ requests' = [requests EXCEPT ![r] =
                       [@ EXCEPT !.pc = "stocked",
                                 !.writes = [@ EXCEPT !.stocks =
                                     IF stocks # <<>>
                                     THEN create_stocks(q.instance.pk, stocks)
                                     ELSE <<>>]]]
                /\ UNCHANGED saves
        /\ UNCHANGED <<database, task_queue, events, next_pk, started,
                       first_saved, registry, checks>>

\* AttributeAssignmentMixin.save(instance, attributes): the values of every
\* attribute of the input replace the variant's values of that attribute
AssignAttributes(links, attributes_data) ==
    LET assigned == Signature(attributes_data)
    IN  [k \in (DOMAIN links) \cup (DOMAIN assigned) |->
            IF k \in DOMAIN assigned THEN assigned[k] ELSE links[k]]

\* save: if attributes: AttributeAssignmentMixin.save(instance, attributes)
SaveAttributes(r) ==
    LET q == requests[r]
        attributes == q.result.cleaned_input[1].attributes
    IN  /\ q.pc = "stocked"
        /\ requests' = [requests EXCEPT ![r] =
               [@ EXCEPT !.pc = "attributed",
                         !.writes = [@ EXCEPT !.attributes =
                             IF attributes # <<>>
                             THEN Some(attributes) ELSE None]]]
        /\ UNCHANGED <<database, task_queue, events, next_pk, started, saves,
                       first_saved, registry, checks>>

\* generate_and_set_variant_name(instance, sku): the sku when there is one,
\* otherwise a name made from the row
generate_and_set_variant_name(instance, sku) ==
    IF sku # None THEN sku ELSE Some(<<"I", "D">>)

\* save: if not instance.name: generate_and_set_variant_name(...)
GenerateName(r) ==
    LET q == requests[r]
        name == generate_and_set_variant_name(
                    q.instance, q.result.cleaned_input[1].sku)
    IN  /\ q.pc = "attributed"
        /\ requests' = [requests EXCEPT ![r] =
               IF q.instance.name = None
               THEN [@ EXCEPT !.pc = "named",
                              !.instance = [@ EXCEPT !.name = name],
                              !.writes = [@ EXCEPT !.name = name]]
               ELSE [@ EXCEPT !.pc = "named"]]
        /\ UNCHANGED <<database, task_queue, events, next_pk, started, saves,
                       first_saved, registry, checks>>

\* save: load_plugin_manager, update_product_search_vector(instance.product):
\* the search representation is recomputed from the product's variants as the
\* transaction sees them
UpdateSearchVector(r) ==
    LET q == requests[r]
    IN  /\ q.pc = "named"
        /\ requests' = [requests EXCEPT ![r] =
               [@ EXCEPT !.pc = "indexed",
                         !.writes = [@ EXCEPT !.search_vector =
                             Some(VariantsOf(database, q.instance.product)
                                  \cup {q.instance.pk})]]]
        /\ UNCHANGED <<database, task_queue, events, next_pk, started, saves,
                       first_saved, registry, checks>>

\* BaseMutation.call_event: inside an atomic block the call is registered to
\* run on commit
call_event(q, event) == [q EXCEPT !.on_commit = Append(@, event)]

\* save: event_to_call, product_variant_created or product_variant_updated
event_to_call(q) ==
    [kind |-> IF q.new_variant THEN "created" ELSE "updated",
     variant |-> q.instance.pk,
     op |-> q.op]

\* faulty variant: the plugin manager is called directly, inside the atomic block
EmitDirectly(r) ==
    /\ requests[r].pc = "indexed"
    /\ events' = Append(events, event_to_call(requests[r]))
    /\ requests' = [requests EXCEPT ![r] = [@ EXCEPT !.pc = "emitted"]]
    /\ UNCHANGED <<database, task_queue, next_pk, started, saves,
                   first_saved, registry, checks>>

\* save: cls.call_event(event_to_call, instance)
CallEvent(r) ==
    /\ requests[r].pc = "indexed"
    /\ requests' = [requests EXCEPT ![r] =
           [call_event(@, event_to_call(@)) EXCEPT !.pc = "emitted"]]
    /\ UNCHANGED <<database, task_queue, events, next_pk, started, saves,
                   first_saved, registry, checks>>

\* the rows of the database with the writes of a transaction applied
ApplyWrites(db, q) ==
    LET w == q.writes
        pk == q.instance.pk
        product == q.instance.product
        links == IF pk \in DOMAIN db.variants
                 THEN db.variants[pk].attributes ELSE <<>>
        row == [product |-> product,
                name |-> IF w.name # None THEN w.name ELSE w.row[1].name,
                sku |-> w.row[1].sku,
                attributes |-> IF w.attributes # None
                               THEN AssignAttributes(links, w.attributes[1])
                               ELSE links]
    IN  [variants |-> [k \in (DOMAIN db.variants) \cup {pk} |->
                          IF k = pk THEN row ELSE db.variants[k]],
         stocks |-> db.stocks \o w.stocks,
         default_variant |->
             IF w.default_variant # None
             THEN [db.default_variant EXCEPT ![product] = w.default_variant[1]]
             ELSE db.default_variant,
         search_vector |->
             IF w.search_vector # None
             THEN [db.search_vector EXCEPT ![product] = w.search_vector[1]]
             ELSE db.search_vector]

\* save: the atomic block is left without an exception: the transaction
\* commits and the calls registered on commit run
Commit(r) ==
    LET q == requests[r]
    IN  /\ q.pc = "emitted"
        /\ database' = ApplyWrites(database, q)
        /\ events' = events \o q.on_commit
        /\ requests' = [requests EXCEPT ![r] =
               [@ EXCEPT !.pc = "done", !.writes = NoWrites, !.on_commit = <<>>]]
        /\ saves' = Append(saves, [op |-> q.op,
                                   pk |-> q.instance.pk,
                                   had_pk |-> q.entry_pk # NoPk,
                                   handed |-> q.on_commit # <<>>,
                                   outcome |-> "committed"])
        /\ first_saved' =
               IF first_saved[q.instance.product] = NoPk
               THEN [first_saved EXCEPT ![q.instance.product] = q.instance.pk]
               ELSE first_saved
        /\ UNCHANGED <<task_queue, next_pk, started, registry, checks>>

\* the response is returned and the invocation is over
Finish(r) ==
    /\ requests[r].pc \in {"rejected", "done", "aborted"}
    /\ requests' = [requests EXCEPT ![r] = Idle]
    /\ UNCHANGED <<database, task_queue, events, next_pk, started, saves,
                   first_saved, registry, checks>>

\* ----------------------------------------------------------- specifications
InitState ==
    /\ database = EmptyDatabase
    /\ task_queue = <<>>
    /\ events = <<>>
    /\ next_pk = 1
    /\ requests = [r \in Slots |-> Idle]
    /\ started = 0
    /\ saves = <<>>
    /\ first_saved = [p \in Products |-> NoPk]
    /\ registry = <<>>
    /\ checks = <<>>

Init == InitState

SaveSteps(r) ==
    \/ BeginSave(r)
    \/ SaveInstance(r)
    \/ SetDefaultVariant(r)
    \/ EnqueueDiscountedPrice(r)
    \/ CreateVariantStocks(r)
    \/ SaveAttributes(r)
    \/ GenerateName(r)
    \/ UpdateSearchVector(r)
    \/ CallEvent(r)
    \/ Commit(r)
    \/ TxFail(r)
    \/ Finish(r)

\* one invocation at a time, each run to its end before the next starts
Next ==
    \/ Start(1, SaveData, MaxOps)
    \/ SaveSteps(1)

Spec == Init /\ [][Next]_vars

\* two invocations whose steps interleave
RaceNext ==
    \E r \in Slots :
        \/ Start(r, RaceData, MaxRaceOps)
        \/ SaveSteps(r)

RaceSpec == Init /\ [][RaceNext]_vars

\* A database the save pipeline leaves: variant 1 of p1 with a1 = x and sku
\* "s", then variant 2 of p2 without attributes.
SeededDatabase ==
    [variants |->
        <<[product |-> "p1", name |-> Some(<<"s">>), sku |-> Some(<<"s">>),
           attributes |-> Signature(ResolveAttributes(<<A1X>>))],
          [product |-> "p2", name |-> Some(<<"I", "D">>), sku |-> None,
           attributes |-> <<>>]>>,
     stocks |-> <<>>,
     default_variant |-> [p \in Products |-> IF p = "p1" THEN 1 ELSE 2],
     search_vector |-> [p \in Products |-> IF p = "p1" THEN {1} ELSE {2}]]

\* clean_input on every input, on an empty and on a populated catalog
CleanInit ==
    /\ database \in {EmptyDatabase, SeededDatabase}
    /\ task_queue = <<>>
    /\ events = <<>>
    /\ next_pk = Len(database.variants) + 1
    /\ requests = [r \in Slots |-> Idle]
    /\ started = MaxOps - 1
    /\ saves = <<>>
    /\ first_saved = database.default_variant
    /\ registry = <<>>
    /\ checks = <<>>

CleanNext ==
    \/ Start(1, CleanData, MaxOps)
    \/ Finish(1)

CleanSpec == CleanInit /\ [][CleanNext]_vars

\* registries read from persisted variants
RegistrySeeds ==
    {<<>>,
     <<Signature(ResolveAttributes(<<A1X>>))>>,
     <<Signature(ResolveAttributes(<<A1X>>)),
       Signature(ResolveAttributes(<<A1Y, A2Slug>>))>>}

RegistryInit ==
    /\ database = EmptyDatabase
    /\ task_queue = <<>>
    /\ events = <<>>
    /\ next_pk = 1
    /\ requests = [r \in Slots |-> Idle]
    /\ started = 0
    /\ saves = <<>>
    /\ first_saved = [p \in Products |-> NoPk]
    /\ registry \in RegistrySeeds
    /\ checks = <<>>

\* one more candidate is checked against the registry the earlier checks left
Validate ==
    /\ Len(checks) < MaxChecks
    /\ \E attributes \in SeqsUpTo(RegistryInputs, MaxAttrs) \ {<<>>} :
        LET attributes_data == ResolveAttributes(attributes)
            outcome == validate_duplicated_attribute_values(
                           attributes_data, registry)
        IN  /\ registry' = outcome.used
            /\ checks' = Append(checks,
                   [signature |-> Signature(attributes_data),
                    raised |-> outcome.raised,
                    code |-> outcome.code,
                    before |-> registry])
    /\ UNCHANGED <<database, task_queue, events, next_pk, requests, started,
                   saves, first_saved>>

RegistrySpec == RegistryInit /\ [][Validate]_vars

\* ------------------------------------------------------------------ claims
Settled(q) == q.pc \in {"rejected", "cleaned"}

ErrorCode(q) == IF q.result.error = NoError THEN "" ELSE q.result.error[1].code
ErrorField(q) == IF q.result.error = NoError THEN "" ELSE q.result.error[1].field
ErrorParams(q) == IF q.result.error = NoError THEN {} ELSE q.result.error[1].params

SuppliedIds(d) == {d.attributes[i].id : i \in 1..Len(d.attributes)}
EligibleIds(q) == ProductType(q.instance.product).variant_attributes

WeightViolated(d) == d.weight # None /\ d.weight[1] < 0
QuantityViolated(d) ==
    d.quantity_limit_per_customer # None /\ d.quantity_limit_per_customer[1] < 1
RepeatedWarehouses(d) ==
    {d.stocks[i].warehouse : i \in
        {j \in 1..Len(d.stocks) :
            \E k \in 1..Len(d.stocks) :
                k # j /\ d.stocks[k].warehouse = d.stocks[j].warehouse}}
ScalarsPass(d) ==
    ~WeightViolated(d) /\ ~QuantityViolated(d) /\ RepeatedWarehouses(d) = {}

\* C1, as stated: of two candidates checked one after the other against the
\* same registry, two with the same signature are accepted then rejected with
\* DUPLICATED_INPUT_ITEM, and two with different signatures are both accepted.
C1_PairAcceptedThenRejected ==
    \A i \in 1..(Len(checks) - 1) :
        LET a == checks[i]
            b == checks[i + 1]
        IN  IF a.signature = b.signature
            THEN ~a.raised /\ b.raised /\ b.code = DUPLICATED_INPUT_ITEM
            ELSE ~a.raised /\ ~b.raised

\* C1, amended: of two candidates checked one after the other against the same
\* registry, when the signatures are the same the second is rejected with
\* DUPLICATED_INPUT_ITEM and the first is rejected exactly when its signature
\* was in the registry already; when the signatures differ, each is rejected
\* exactly when its own signature was in the registry before the pair, so
\* neither is rejected because of the other.
C1_PairAgainstRegistry ==
    \A i \in 1..(Len(checks) - 1) :
        LET a == checks[i]
            b == checks[i + 1]
            known(c) == c.signature \in Range(a.before)
        IN  /\ a.raised <=> known(a)
            /\ a.raised => a.code = DUPLICATED_INPUT_ITEM
            /\ IF a.signature = b.signature
               THEN b.raised /\ b.code = DUPLICATED_INPUT_ITEM
               ELSE b.raised <=> known(b)

\* C1, its case: a populated registry, a first candidate accepted and a second
\* candidate with the same signature rejected
C1_Witness ==
    /\ Len(checks) = 2
    /\ checks[1].before # <<>>
    /\ checks[1].signature = checks[2].signature
    /\ ~checks[1].raised
    /\ checks[2].raised

\* C2, as stated: clean_input succeeds on every input whose attribute ids are
\* all eligible, and fails with ATTRIBUTE_CANNOT_BE_ASSIGNED, reporting exactly
\* the ineligible ids, on every other input. (Read on the inputs that supply
\* at least one attribute and a value or a file for each.)
C2_EligibleSucceeds ==
    \A r \in Slots :
        LET q == requests[r]
        IN  (/\ Settled(q)
             /\ q.data.attributes # <<>>
             /\ \A i \in 1..Len(q.data.attributes) :
                    \/ q.data.attributes[i].values # <<>>
                    \/ q.data.attributes[i].file_url # None) =>
                IF SuppliedIds(q.data) \subseteq EligibleIds(q)
                THEN q.result.error = NoError
                ELSE /\ ErrorCode(q) = ATTRIBUTE_CANNOT_BE_ASSIGNED
                     /\ ErrorParams(q) = SuppliedIds(q.data) \ EligibleIds(q)

\* C2, amended: on an input whose attribute ids are all eligible clean_input
\* never fails with ATTRIBUTE_CANNOT_BE_ASSIGNED (another check may still fail
\* it); on an input with an ineligible id that passes the weight, quantity
\* limit and stocks checks, it fails with ATTRIBUTE_CANNOT_BE_ASSIGNED and
\* reports exactly the supplied ids that are not eligible.
C2_EligibilityCheck ==
    \A r \in Slots :
        LET q == requests[r]
        IN  Settled(q) =>
                IF SuppliedIds(q.data) \subseteq EligibleIds(q)
                THEN ErrorCode(q) # ATTRIBUTE_CANNOT_BE_ASSIGNED
                ELSE ScalarsPass(q.data) =>
                        /\ q.pc = "rejected"
                        /\ ErrorCode(q) = ATTRIBUTE_CANNOT_BE_ASSIGNED
                        /\ ErrorParams(q) = SuppliedIds(q.data) \ EligibleIds(q)

\* C2, its case: an input with an eligible and an ineligible id was rejected
C2_Witness ==
    /\ requests[1].pc = "rejected"
    /\ SuppliedIds(requests[1].data) = {"a1", "a3"}
    /\ requests[1].instance.product = "p1"
    /\ ErrorParams(requests[1]) = {"a3"}

\* C7, as stated: for a product type without variants, clean_input fails with
\* INVALID on every non-empty attribute input once the scalar checks pass,
\* whatever the ids, and the attribute phase succeeds on an empty one.
C7_NonEmptyIsInvalid ==
    \A r \in Slots :
        LET q == requests[r]
        IN  (/\ Settled(q)
             /\ ~ProductType(q.instance.product).has_variants
             /\ ScalarsPass(q.data)) =>
                IF q.data.attributes # <<>>
                THEN q.pc = "rejected" /\ ErrorCode(q) = INVALID
                ELSE q.result.error = NoError \/ ErrorField(q) = "sku"

\* C7, amended: for a product type without variants, once the scalar checks
\* pass, clean_input fails with INVALID on every non-empty attribute input
\* whose ids are all eligible variant attributes, fails with
\* ATTRIBUTE_CANNOT_BE_ASSIGNED on one with an ineligible id, and the attribute
\* phase succeeds on an empty one.
C7_EligibleNonEmptyIsInvalid ==
    \A r \in Slots :
        LET q == requests[r]
        IN  (/\ Settled(q)
             /\ ~ProductType(q.instance.product).has_variants
             /\ ScalarsPass(q.data)) =>
                IF q.data.attributes = <<>>
                THEN q.result.error = NoError \/ ErrorField(q) = "sku"
                ELSE IF SuppliedIds(q.data) \subseteq EligibleIds(q)
                THEN q.pc = "rejected" /\ ErrorCode(q) = INVALID
                ELSE q.pc = "rejected"
                     /\ ErrorCode(q) = ATTRIBUTE_CANNOT_BE_ASSIGNED

\* C7, its case: eligible attributes for a product without variants, rejected
\* with INVALID
C7_Witness ==
    /\ requests[1].pc = "rejected"
    /\ requests[1].instance.product = "p2"
    /\ SuppliedIds(requests[1].data) = {"a1"}
    /\ ErrorCode(requests[1]) = INVALID
    /\ ErrorField(requests[1]) = ""

\* C8: clean_input reports one failure, that of the first violated check in
\* the order weight, quantity_limit_per_customer, stocks, sku normalization,
\* and the sku normalizer is not called when an earlier check failed.
C8_FailFast ==
    \A r \in Slots :
        LET q == requests[r]
            d == q.data
        IN  Settled(q) =>
                /\ Len(q.result.error) <= 1
                /\ WeightViolated(d) =>
                       ErrorField(q) = "weight" /\ ErrorCode(q) = INVALID
                /\ (~WeightViolated(d) /\ QuantityViolated(d)) =>
                       /\ ErrorField(q) = "quantity_limit_per_customer"
                       /\ ErrorCode(q) = INVALID
                /\ (/\ ~WeightViolated(d)
                    /\ ~QuantityViolated(d)
                    /\ RepeatedWarehouses(d) # {}) =>
                       /\ ErrorField(q) = "stocks"
                       /\ ErrorCode(q) = UNIQUE
                       /\ ErrorParams(q) = RepeatedWarehouses(d)
                /\ ErrorField(q) = "weight" => WeightViolated(d)
                /\ ErrorField(q) = "quantity_limit_per_customer" =>
                       QuantityViolated(d)
                /\ ErrorField(q) = "stocks" => RepeatedWarehouses(d) # {}
                /\ (q.pc = "rejected" /\ ErrorField(q) # "sku") =>
                       q.result.sku_normalizer_calls = 0
                /\ ErrorField(q) = "sku" => ScalarsPass(d)

\* C8, its case: weight, quantity limit and stocks are all violated, a sku is
\* given, and the weight is what is reported
C8_Witness ==
    /\ requests[1].pc = "rejected"
    /\ WeightViolated(requests[1].data)
    /\ QuantityViolated(requests[1].data)
    /\ RepeatedWarehouses(requests[1].data) # {}
    /\ requests[1].data.sku # None
    /\ ErrorField(requests[1]) = "weight"

\* the stock rows of a variant, in table order
StockRows(db, pk) == SelectSeq(db.stocks, LAMBDA row : row.variant = pk)

\* the input repeats what the variant has: its attribute assignment and its
\* stocks
UnchangedInput(q, db) ==
    /\ q.entry_pk \in DOMAIN db.variants
    /\ Signature(ResolveAttributes(q.data.attributes))
           = db.variants[q.entry_pk].attributes
    /\ create_stocks(q.entry_pk, q.data.stocks) = StockRows(db, q.entry_pk)

\* C3: an update of a persisted variant with its unchanged input passes
\* clean_input, leaves the stock and attribute rows of the variant as they
\* were, and emits "variant updated".
C3_UpdateIsIdempotent ==
    \A r \in Slots :
        LET q == requests[r]
        IN  /\ (q.pc = "rejected" /\ q.entry_pk # NoPk) =>
                   ~UnchangedInput(q, database)
            /\ (/\ q.pc = "done"
                /\ q.entry_pk # NoPk
                /\ UnchangedInput(q, q.before[1].database)) =>
                   /\ StockRows(database, q.entry_pk)
                          = StockRows(q.before[1].database, q.entry_pk)
                   /\ database.variants[q.entry_pk].attributes
                          = q.before[1].database.variants[q.entry_pk].attributes
                   /\ events[Len(events)]
                          = [kind |-> "updated", variant |-> q.entry_pk,
                             op |-> q.op]

\* C4: after a save that failed, nothing of it is visible: the rows, the
\* default-variant pointers, the enqueued recalculations and the events are
\* what they were when the save began.
C4_FailedSaveLeavesNothing ==
    \A r \in Slots :
        requests[r].pc = "aborted" => Visible = requests[r].before[1]

\* C5: every committed save has emitted exactly one event, "created" when the
\* instance had no primary key on entry and "updated" otherwise; a variant has
\* at most one "created" event, and it comes from the first of its saves.
C5_OneEventPerSave ==
    /\ \A i \in 1..Len(saves) :
           saves[i].outcome = "committed" =>
               /\ Cardinality({j \in 1..Len(events) :
                                  events[j].op = saves[i].op}) = 1
               /\ \A j \in 1..Len(events) :
                      events[j].op = saves[i].op =>
                          /\ events[j].variant = saves[i].pk
                          /\ events[j].kind = IF saves[i].had_pk
                                              THEN "updated" ELSE "created"
    /\ \A j \in 1..Len(events), k \in 1..Len(events) :
           (/\ j # k
            /\ events[j].variant = events[k].variant
            /\ events[j].kind = "created") =>
               j < k /\ events[k].kind = "updated"

\* C5, its case: a variant was created by one save and updated by a later one
C5_Witness ==
    \E j \in 1..Len(events), k \in 1..Len(events) :
        /\ j < k
        /\ events[j].variant = events[k].variant
        /\ events[j].kind = "created"
        /\ events[k].kind = "updated"

\* C6: the default-variant pointer of every product is the first variant a
\* save committed for it, and unset while there is none.
C6_DefaultIsFirstSaved ==
    \A p \in Products : database.default_variant[p] = first_saved[p]

\* C9: every invocation that reaches save with attributes passed the
\* duplicate check against its own registry: its signature is the entry the
\* check appended, and was not among the signatures read before.
C9_EachSavePassedTheCheck ==
    \A r \in Slots :
        LET q == requests[r]
            used == q.result.used
        IN  (/\ q.pc \in {"cleaned", "done"} \cup TxPcs
             /\ q.data.attributes # <<>>) =>
                /\ used # <<>>
                /\ used[Len(used)]
                       = Signature(ResolveAttributes(q.data.attributes))
                /\ used[Len(used)] \notin Range(SubSeq(used, 1, Len(used) - 1))

\* C9, its case: two invocations that both created a variant of the same
\* product have both committed, and the two rows carry the same signature
C9_Witness ==
    /\ requests[1].pc = "done"
    /\ requests[2].pc = "done"
    /\ requests[1].entry_pk = NoPk
    /\ requests[2].entry_pk = NoPk
    /\ requests[1].instance.pk # requests[2].instance.pk
    /\ requests[1].instance.product = requests[2].instance.product
    /\ database.variants[requests[1].instance.pk].attributes
           = database.variants[requests[2].instance.pk].attributes
    /\ database.variants[requests[1].instance.pk].attributes # <<>>

\* C10: an event the plugin manager has received belongs to a save that has
\* committed; a save still inside its transaction, and a save that aborted,
\* have delivered none.
C10_EventsFollowCommit ==
    /\ \A j \in 1..Len(events) :
           \E i \in 1..Len(saves) :
               saves[i].op = events[j].op /\ saves[i].outcome = "committed"
    /\ \A r \in Slots :
           requests[r].pc \in TxPcs \cup {"aborted"} =>
               \A j \in 1..Len(events) : events[j].op # requests[r].op

\* C10, its case: a save aborted after its event had been handed to
\* call_event, and the event of an earlier save was delivered
C10_Witness ==
    /\ events # <<>>
    /\ \E i \in 1..Len(saves) :
           /\ saves[i].outcome = "aborted"
           /\ saves[i].handed
           /\ \A j \in 1..Len(events) : events[j].op # saves[i].op

====
